---- MODULE Spec2Model ----
(***************************************************************************)
(* gloss -- Grep for Logs on Open Source Systems (src/gloss.py).           *)
(*                                                                         *)
(* Python strings are TLA+ strings; a character is a string of length 1.   *)
(* A value that may be None is a sequence of length 0 (None) or 1.         *)
(***************************************************************************)
EXTENDS Integers, Sequences, FiniteSets, TLC

(***************************************************************************)
(* Strings                                                                 *)
(***************************************************************************)
Ch(s, i) == SubSeq(s, i, i)

Ascii ==
    " !\"#$%&'()*+,-./0123456789:;<=>?@ABCDEFGHIJKLMNOPQRSTUVWXYZ[\\]^_abcdefghijklmnopqrstuvwxyz{|}~"

Ord(c) == CHOOSE i \in 1..Len(Ascii) : Ch(Ascii, i) = c

CharRange(lo, hi) == { Ch(Ascii, k) : k \in Ord(lo)..Ord(hi) }

RECURSIVE Join(_, _)
Join(sep, xs) ==
    IF xs = <<>> THEN ""
    ELSE IF Len(xs) = 1 THEN xs[1]
    ELSE xs[1] \o sep \o Join(sep, Tail(xs))

\* The first place at or after i where c stands in s; 0 when there is none.
Find(s, c, i) ==
    LET at == { k \in i..Len(s) : Ch(s, k) = c } IN
    IF at = {} THEN 0 ELSE CHOOSE k \in at : \A j \in at : k <= j

RECURSIVE Split(_, _)
Split(s, c) ==
    LET k == Find(s, c, 1) IN
    IF k = 0 THEN <<s>>
    ELSE <<SubSeq(s, 1, k - 1)>> \o Split(SubSeq(s, k + 1, Len(s)), c)

Split1(s, c) ==
    LET k == Find(s, c, 1) IN
    <<SubSeq(s, 1, k - 1), SubSeq(s, k + 1, Len(s))>>

None == <<>>
Some(s) == <<s>>

(***************************************************************************)
(* re.compile: the pattern's parse tree.  Nodes:                           *)
(*   lit c | any | set neg cs | cat xs | alt xs | grp n x | rep min max x  *)
(* A parse result is [ok, node, pos, ng]: pos is the place the parse       *)
(* stopped at, ng the number of capture groups opened so far.              *)
(***************************************************************************)
Inf == 0 - 1

ReError(i) == [ok |-> FALSE, node |-> [t |-> "cat", xs |-> <<>>], pos |-> i, ng |-> 0]

RECURSIVE ParseClassItems(_, _, _, _)
ParseClassItems(p, i, cs, first) ==
    IF i > Len(p) THEN [ok |-> FALSE, cs |-> cs, pos |-> i]
    ELSE IF Ch(p, i) = "]" /\ ~first THEN [ok |-> TRUE, cs |-> cs, pos |-> i + 1]
    ELSE IF Ch(p, i) = "\\"
    THEN IF i + 1 > Len(p) THEN [ok |-> FALSE, cs |-> cs, pos |-> i]
         ELSE ParseClassItems(p, i + 2, cs \cup {Ch(p, i + 1)}, FALSE)
    ELSE IF i + 2 <= Len(p) /\ Ch(p, i + 1) = "-" /\ Ch(p, i + 2) # "]"
    THEN ParseClassItems(p, i + 3, cs \cup CharRange(Ch(p, i), Ch(p, i + 2)), FALSE)
    ELSE ParseClassItems(p, i + 1, cs \cup {Ch(p, i)}, FALSE)

ClassNode(neg, r) ==
    [ok |-> r.ok, node |-> [t |-> "set", neg |-> neg, cs |-> r.cs], pos |-> r.pos]

ParseClass(p, i) ==
    IF i <= Len(p) /\ Ch(p, i) = "^"
    THEN ClassNode(TRUE, ParseClassItems(p, i + 1, {}, TRUE))
    ELSE ClassNode(FALSE, ParseClassItems(p, i, {}, TRUE))

Repeat(c, x) ==
    [t |-> "rep", min |-> IF c = "+" THEN 1 ELSE 0, max |-> IF c = "?" THEN 1 ELSE Inf,
     x |-> x]

RECURSIVE ParseSub(_, _, _)
RECURSIVE ParseBranches(_, _, _, _)
RECURSIVE ParseSeq(_, _, _, _)
RECURSIVE AfterClass(_, _, _, _, _)
RECURSIVE AfterGroup(_, _, _, _, _)
RECURSIVE AfterBranch(_, _, _)

\* The items of one branch, up to a "|", a ")" or the end of the pattern.
ParseSeq(p, i, ng, items) ==
    IF i > Len(p) \/ Ch(p, i) \in {"|", ")"}
    THEN [ok |-> TRUE, node |-> [t |-> "cat", xs |-> items], pos |-> i, ng |-> ng]
    ELSE
    CASE Ch(p, i) = "\\" ->
            IF i + 1 > Len(p) THEN ReError(i)
            ELSE ParseSeq(p, i + 2, ng, Append(items, [t |-> "lit", c |-> Ch(p, i + 1)]))
      [] Ch(p, i) = "[" ->
            AfterClass(p, i, ng, items, ParseClass(p, i + 1))
      [] Ch(p, i) = "." ->
            ParseSeq(p, i + 1, ng, Append(items, [t |-> "any"]))
      [] Ch(p, i) = "(" ->
            IF i + 1 <= Len(p) /\ Ch(p, i + 1) = "?"
            THEN IF i + 2 <= Len(p) /\ Ch(p, i + 2) = ":"
                 THEN AfterGroup(p, i, items, 0, ParseSub(p, i + 3, ng))
                 ELSE ReError(i)
            ELSE AfterGroup(p, i, items, ng + 1, ParseSub(p, i + 1, ng + 1))
      [] Ch(p, i) \in {"*", "+", "?"} ->
            IF items = <<>> \/ items[Len(items)].t = "rep" THEN ReError(i)
            ELSE ParseSeq(p, i + 1, ng,
                          Append(SubSeq(items, 1, Len(items) - 1),
                                 Repeat(Ch(p, i), items[Len(items)])))
      [] OTHER ->
            ParseSeq(p, i + 1, ng, Append(items, [t |-> "lit", c |-> Ch(p, i)]))

\* r: the character class parsed after the "[" at i.
AfterClass(p, i, ng, items, r) ==
    IF ~r.ok THEN ReError(i)
    ELSE ParseSeq(p, r.pos, ng, Append(items, r.node))

\* sub: the alternatives parsed after the "(" at i; n: the number of the
\* capture group it opens, 0 for "(?:".
AfterGroup(p, i, items, n, sub) ==
    IF ~sub.ok \/ sub.pos > Len(p) THEN ReError(i)
    ELSE ParseSeq(p, sub.pos + 1, sub.ng,
                  Append(items, IF n = 0 THEN sub.node
                                ELSE [t |-> "grp", n |-> n, x |-> sub.node]))

ParseBranches(p, i, ng, branches) == AfterBranch(p, branches, ParseSeq(p, i, ng, <<>>))

\* b: the branch just parsed.
AfterBranch(p, branches, b) ==
    IF ~b.ok THEN b
    ELSE IF b.pos <= Len(p) /\ Ch(p, b.pos) = "|"
    THEN ParseBranches(p, b.pos + 1, b.ng, Append(branches, b.node))
    ELSE [ok |-> TRUE,
          node |-> IF branches = <<>> THEN b.node
                   ELSE [t |-> "alt", xs |-> Append(branches, b.node)],
          pos |-> b.pos, ng |-> b.ng]

ParseSub(p, i, ng) == ParseBranches(p, i, ng, <<>>)

Compiled(p, r) ==
    IF r.ok /\ r.pos > Len(p) THEN [ok |-> TRUE, node |-> r.node, groups |-> r.ng]
    ELSE [ok |-> FALSE, node |-> r.node, groups |-> 0]

\* re.compile (pattern): ok is FALSE where re.compile raises re.error.
ReCompile(p) == Compiled(p, ParseSub(p, 1, 0))

(***************************************************************************)
(* pattern.match: a backtracking matcher.  ReM yields every way the node   *)
(* matches s from position i, as [pos, caps], in the order the             *)
(* backtracking engine tries them; the first is the match.                 *)
(***************************************************************************)
RECURSIVE ReM(_, _, _, _)
RECURSIVE ReCat(_, _, _, _, _)
RECURSIVE ReCatEach(_, _, _, _, _)
RECURSIVE ReAlt(_, _, _, _, _)
RECURSIVE ReRep(_, _, _, _, _)
RECURSIVE ReRepEach(_, _, _, _, _)

Capture(n, i, rs) ==
    [k \in 1..Len(rs) |->
        [pos |-> rs[k].pos, caps |-> [rs[k].caps EXCEPT ![n] = <<i, rs[k].pos>>]]]

ReM(node, s, i, caps) ==
    CASE node.t = "lit" ->
            IF i <= Len(s) /\ Ch(s, i) = node.c
            THEN <<[pos |-> i + 1, caps |-> caps]>> ELSE <<>>
      [] node.t = "any" ->
            IF i <= Len(s) /\ Ch(s, i) # "\n"
            THEN <<[pos |-> i + 1, caps |-> caps]>> ELSE <<>>
      [] node.t = "set" ->
            IF i <= Len(s) /\ ((Ch(s, i) \in node.cs) # node.neg)
            THEN <<[pos |-> i + 1, caps |-> caps]>> ELSE <<>>
      [] node.t = "cat" -> ReCat(node.xs, 1, s, i, caps)
      [] node.t = "alt" -> ReAlt(node.xs, 1, s, i, caps)
      [] node.t = "grp" -> Capture(node.n, i, ReM(node.x, s, i, caps))
      [] node.t = "rep" -> ReRep(node, 0, s, i, caps)

ReCat(xs, k, s, i, caps) ==
    IF k > Len(xs) THEN <<[pos |-> i, caps |-> caps]>>
    ELSE ReCatEach(xs, k, s, ReM(xs[k], s, i, caps), 1)

ReCatEach(xs, k, s, rs, j) ==
    IF j > Len(rs) THEN <<>>
    ELSE ReCat(xs, k + 1, s, rs[j].pos, rs[j].caps) \o ReCatEach(xs, k, s, rs, j + 1)

ReAlt(xs, k, s, i, caps) ==
    IF k > Len(xs) THEN <<>>
    ELSE ReM(xs[k], s, i, caps) \o ReAlt(xs, k + 1, s, i, caps)

\* Greedy: one more repetition is tried before stopping here.
ReRep(node, count, s, i, caps) ==
    (IF node.max = Inf \/ count < node.max
     THEN ReRepEach(node, count, s, ReM(node.x, s, i, caps), 1)
     ELSE <<>>)
    \o (IF count >= node.min THEN <<[pos |-> i, caps |-> caps]>> ELSE <<>>)

ReRepEach(node, count, s, rs, j) ==
    IF j > Len(rs) THEN <<>>
    ELSE ReRep(node, count + 1, s, rs[j].pos, rs[j].caps)
         \o ReRepEach(node, count, s, rs, j + 1)

Groups(s, n, rs) ==
    IF rs = <<>> THEN None
    ELSE Some([g \in 1..n |->
                 IF rs[1].caps[g] = <<>> THEN None
                 ELSE Some(SubSeq(s, rs[1].caps[g][1], rs[1].caps[g][2] - 1))])

\* pattern.match (s): None, or the match's groups () as a tuple of
\* None-or-string, one per capture group of the pattern.
ReMatch(re, s) == Groups(s, re.groups, ReM(re.node, s, 1, [g \in 1..re.groups |-> <<>>]))

(***************************************************************************)
(* Bounds and input sets                                                   *)
(***************************************************************************)
\* At most MaxFiles --logfile arguments in a run.
MaxFiles == 2
\* The log files of a run hold at most MaxLines lines together.
MaxLines == 2

SeqsUpTo(S, n) == UNION { [1..k -> S] : k \in 0..n }

LinePid   == "Oct 12 23:14:15 mail1 postfix/smtp[1234]: message-id=XYZ\n"
LineNoPid == "Oct 12 23:14:16 mail2 kernel: up\n"
LineBad   == "-- MARK --\n"
\* The lines a log file of a run may hold.
Lines == {LinePid, LineNoPid, LineBad}

\* An element of args.where: a string, or the list ['OR'] of --or.
Str(s) == [list |-> FALSE, v |-> s]
OR == [list |-> TRUE, v |-> "OR"]

\* What open (path).read () of a --pid path may yield; None: the open fails.
PidFiles == {None, Some("1234\n")}

VARIABLES
    args,        \* the parsed command line (argparse's namespace)
    pc,          \* the place in the script
    var_names, conditions, use_pid, use_proc, re_logline, seeline,
    lfi,         \* index of lf in args.logfile
    lfl_all,     \* lfh.readlines () of the open log file
    lli,         \* index of lfl in lfl_all
    linevars, where,
    ci,          \* index of (var,val,eq) in conditions, where the loop is stepped
    stdout, stderr, warning,
    status,      \* the exit status; None while the script runs
    log          \* history: what the scan did, one event per open and per line

vars == <<args, pc, var_names, conditions, use_pid, use_proc, re_logline, seeline,
          lfi, lfl_all, lli, linevars, where, ci, stdout, stderr, warning, status, log>>

(***************************************************************************)
(* Interpret options (lines 151-176)                                       *)
(***************************************************************************)
RECURSIVE NonEmpty(_)
NonEmpty(xs) ==
    IF xs = <<>> THEN <<>>
    ELSE (IF xs[1] # "" THEN <<xs[1]>> ELSE <<>>) \o NonEmpty(Tail(xs))

RECURSIVE SelectNames(_)
SelectNames(select) ==
    IF select = <<>> THEN <<>>
    ELSE NonEmpty(Split(select[1], "=")) \o SelectNames(Tail(select))

\* Mutant of WhereArg: an empty variable name is accepted.
WhereArg_AnyName(w) ==
    IF w.list /\ w.v = "OR"
    THEN [err |-> None, cond |-> [var |-> None, val |-> None, eq |-> None]]
    ELSE IF Find(w.v, "=", 1) = 0
    THEN [err |-> Some("Invalid where clause; use varname=value: " \o w.v \o "\n"),
          cond |-> None]
    ELSE LET sp   == Split1(w.v, "=")
             bang == Len(sp[1]) > 0 /\ Ch(sp[1], Len(sp[1])) = "!"
             wvar == IF bang THEN SubSeq(sp[1], 1, Len(sp[1]) - 1) ELSE sp[1]
         IN  [err |-> None,
              cond |-> [var |-> Some(wvar), val |-> Some(sp[2]), eq |-> Some(~bang)]]

\* One --where argument: the condition appended, or err where the script
\* writes to stderr and exits with status 1.
WhereArg(w) ==
    IF w.list /\ w.v = "OR"
    THEN [err |-> None, cond |-> [var |-> None, val |-> None, eq |-> None]]
    ELSE IF Find(w.v, "=", 1) = 0
    THEN [err |-> Some("Invalid where clause; use varname=value: " \o w.v \o "\n"),
          cond |-> None]
    ELSE LET sp   == Split1(w.v, "=")
             bang == Len(sp[1]) > 0 /\ Ch(sp[1], Len(sp[1])) = "!"
             wvar == IF bang THEN SubSeq(sp[1], 1, Len(sp[1]) - 1) ELSE sp[1]
             same == ~bang
         IN  IF wvar = ""
             THEN [err |-> Some("You must supply a variable name in --where\n"),
                   cond |-> None]
             ELSE [err |-> None,
                   cond |-> [var |-> Some(wvar), val |-> Some(sp[2]), eq |-> Some(same)]]

RECURSIVE WhereArgs(_, _)
RECURSIVE WhereAppend(_, _, _)

\* The loop over args.where, ended by the first argument that is in error.
WhereArgs(ws, conds) ==
    IF ws = <<>> THEN [err |-> None, conditions |-> conds]
    ELSE WhereAppend(ws, conds, WhereArg(ws[1]))

WhereAppend(ws, conds, r) ==
    IF r.err # None THEN [err |-> r.err, conditions |-> conds]
    ELSE WhereArgs(Tail(ws), Append(conds, r.cond))

(***************************************************************************)
(* Regular expressions for the logfile lines (lines 184-235)               *)
(***************************************************************************)
re_numeric == ReCompile("[0-9]+")
re_netstat == ReCompile("(?:tcp|udp|sctp):[0-9]+")

\* '|'.join of a set of strings: the set's iteration order decides the order
\* of the alternatives, not which strings the alternation matches.
opt_month == <<"Jan", "Feb", "Mar", "Apr", "May", "Jun",
               "Jul", "Aug", "Sep", "Oct", "Nov", "Dec">>
re_month == "(" \o Join("|", opt_month) \o ")"
ky_month == <<"month">>

opt_day == [d \in 1..31 |-> ToString(d)]
re_day == "(" \o Join("|", opt_day) \o ")"
ky_day == <<"day">>

re_time == "([01][0-9]|2[0-3]:[0-5][0-9]:[0-5][0-9])"
ky_time == <<"time">>

re_tstamp == "((" \o re_month \o " +" \o re_day \o ") " \o re_time \o ")"
ky_tstamp == <<"timestamp", "date">> \o ky_month \o ky_day \o ky_time

re_host(hostname) ==
    IF hostname = None THEN "([^ ]+)" ELSE "(" \o Join("|", hostname[1]) \o ")"
ky_host == <<"host">>

WhiteSpace == {" ", "\t", "\n", "\r"}

RECURSIVE Strip(_)
Strip(s) ==
    IF s = "" THEN s
    ELSE IF Ch(s, 1) \in WhiteSpace THEN Strip(SubSeq(s, 2, Len(s)))
    ELSE IF Ch(s, Len(s)) \in WhiteSpace THEN Strip(SubSeq(s, 1, Len(s) - 1))
    ELSE s

RECURSIVE PidArgs(_, _, _, _, _)
RECURSIVE PidAppend(_, _, _, _, _, _)

\* The loop over args.pid; pf[k] is what reading the k-th argument as a file
\* yields.  crash: open () raised and nothing catches it.
PidArgs(pids, pf, k, upid, uproc) ==
    IF k > Len(pids)
    THEN [err |-> None, crash |-> FALSE, use_pid |-> upid, use_proc |-> uproc]
    ELSE IF SubSeq(pids[k], 1, IF Len(pids[k]) >= 1 THEN 1 ELSE 0) = "/"
    THEN IF pf[k] = None
         THEN [err |-> None, crash |-> TRUE, use_pid |-> upid, use_proc |-> uproc]
         ELSE PidAppend(pids, pf, k, upid, uproc, Strip(pf[k][1]))
    ELSE IF ReMatch(re_netstat, pids[k]) # None
    THEN [err |-> Some("No support yet for --pid " \o pids[k] \o "\n"), crash |-> FALSE,
          use_pid |-> upid, use_proc |-> uproc]
    ELSE PidAppend(pids, pf, k, upid, uproc, pids[k])

PidAppend(pids, pf, k, upid, uproc, pid) ==
    IF ReMatch(re_numeric, pid) # None
    THEN PidArgs(pids, pf, k + 1, Append(upid, pid), uproc)
    ELSE PidArgs(pids, pf, k + 1, upid, Append(uproc, pid))

re_proc(uproc) ==
    IF uproc = <<>> THEN "([^:]*[^:\\]])" ELSE "(" \o Join("|", uproc) \o ")"
re_pid(upid) ==
    IF upid = <<>> THEN "(?:\\[([0-9]+)\\])?" ELSE "\\[(" \o Join("|", upid) \o ")\\]"
ky_proc == <<"proc">>
ky_pid == <<"pid">>

re_rest(regexp) ==
    IF regexp = None THEN "(.*)" ELSE "(.*" \o Join(".*|.*", regexp[1]) \o ".*)"
ky_rest == <<"logentry">>

LogLine(hostname, uproc, upid, regexp) ==
    re_tstamp \o " " \o re_host(hostname) \o " " \o re_proc(uproc) \o re_pid(upid)
        \o ": +" \o re_rest(regexp) \o "\n"
ky_logline == ky_tstamp \o ky_host \o ky_proc \o ky_pid \o ky_rest

(***************************************************************************)
(* One line of a log file (lines 249-272)                                  *)
(***************************************************************************)
Min(a, b) == IF a < b THEN a ELSE b

\* dict (zip (keys, values)): pairs up to the shorter list; of two pairs with
\* the same key the later one stays.
DictZip(keys, values) ==
    LET n == Min(Len(keys), Len(values)) IN
    [key \in { keys[k] : k \in 1..n } |->
        values[CHOOSE k \in 1..n : keys[k] = key /\ \A j \in (k + 1)..n : keys[j] # key]]

\* Mutant of WhereCond: the OR marker always starts a new chain, without
\* the break.
WhereCond_NoBreak(c, lv, w) ==
    IF c.eq = None THEN [where |-> TRUE, brk |-> FALSE]
    ELSE IF c.var[1] \notin DOMAIN lv THEN [where |-> FALSE, brk |-> FALSE]
    ELSE IF (lv[c.var[1]] = c.val) # c.eq[1] THEN [where |-> FALSE, brk |-> FALSE]
    ELSE [where |-> w, brk |-> FALSE]

\* Mutant of WhereCond: a test assigns its outcome to where.
WhereCond_TestAssigns(c, lv, w) ==
    IF c.eq = None
    THEN IF w THEN [where |-> w, brk |-> TRUE] ELSE [where |-> TRUE, brk |-> FALSE]
    ELSE IF c.var[1] \notin DOMAIN lv THEN [where |-> FALSE, brk |-> FALSE]
    ELSE [where |-> ((lv[c.var[1]] = c.val) = c.eq[1]), brk |-> FALSE]

\* Mutant of WhereCond: the OR marker leaves a false where as it is.
WhereCond_OrKeeps(c, lv, w) ==
    IF c.eq = None
    THEN IF w THEN [where |-> w, brk |-> TRUE] ELSE [where |-> w, brk |-> FALSE]
    ELSE IF c.var[1] \notin DOMAIN lv THEN [where |-> FALSE, brk |-> FALSE]
    ELSE IF (lv[c.var[1]] = c.val) # c.eq[1] THEN [where |-> FALSE, brk |-> FALSE]
    ELSE [where |-> w, brk |-> FALSE]

\* One iteration of the loop over conditions: the new value of where, and
\* whether the loop breaks.
WhereCond(c, lv, w) ==
    IF c.eq = None
    THEN IF w THEN [where |-> w, brk |-> TRUE] ELSE [where |-> TRUE, brk |-> FALSE]
    ELSE IF c.var[1] \notin DOMAIN lv THEN [where |-> FALSE, brk |-> FALSE]
    ELSE IF (lv[c.var[1]] = c.val) # c.eq[1] THEN [where |-> FALSE, brk |-> FALSE]
    ELSE [where |-> w, brk |-> FALSE]

RECURSIVE WhereLoop(_, _, _, _)
RECURSIVE WhereNext(_, _, _, _)

\* for (var,val,eq) in conditions, from the i-th on, where being w.
WhereLoop(conds, i, lv, w) ==
    IF i > Len(conds) THEN w
    ELSE WhereNext(conds, i, lv, WhereCond(conds[i], lv, w))

WhereNext(conds, i, lv, r) ==
    IF r.brk THEN r.where ELSE WhereLoop(conds, i + 1, lv, r.where)

\* for var in var_names: print var + '=' + linevars [var]; then print.
\* raised: the exception that ends the loop, after the lines printed so far.
RECURSIVE PrintVars(_, _, _)
PrintVars(names, lv, out) ==
    IF names = <<>> THEN [out |-> Append(out, ""), raised |-> None]
    ELSE IF names[1] \notin DOMAIN lv
    THEN [out |-> out, raised |-> Some("'" \o names[1] \o "'")]
    ELSE IF lv[names[1]] = None
    THEN [out |-> out,
          raised |-> Some("cannot concatenate 'str' and 'NoneType' objects")]
    ELSE PrintVars(Tail(names), lv, Append(out, names[1] \o "=" \o lv[names[1]][1]))

Printed(lv, w, pr) ==
    [matched |-> TRUE, linevars |-> Some(lv), where |-> Some(w),
     out |-> pr.out, raised |-> pr.raised]

\* lines 268-272
Selected(names, lv, w) ==
    IF w THEN Printed(lv, w, PrintVars(names, lv, <<>>))
    ELSE Printed(lv, w, [out |-> <<>>, raised |-> None])

\* lines 255-267
Bound(conds, names, lv) == Selected(names, lv, WhereLoop(conds, 1, lv, TRUE))

\* lines 250-255
Logged(conds, names, verbose, logged) ==
    IF logged = None
    THEN [matched |-> FALSE, linevars |-> None, where |-> None, out |-> <<>>,
          raised |-> IF verbose
                     THEN Some("function takes exactly 1 argument (2 given)")
                     ELSE None]
    ELSE Bound(conds, names, DictZip(ky_logline, logged[1]))

\* The body of the loop over lfh.readlines () for the line lfl.
LineBody(re, conds, names, verbose, lfl) ==
    Logged(conds, names, verbose, ReMatch(re, lfl))

(***************************************************************************)
(* The run of the script                                                   *)
(***************************************************************************)
LogFileName(k) == "/var/log/file" \o ToString(k)

\* args.logfile where no --logfile is given (lines 141-143)
DefaultLogFiles == << "/var/log/syslog", "/var/log/messages" >>

\* print text: the lines it adds to stdout.
PrintLines(text) == Split(text, "\n")

Event(t, file, ok, content, idx, r) ==
    [t |-> t, file |-> file, ok |-> ok, lines |-> content, idx |-> idx,
     matched |-> r.matched, selected |-> (r.where = Some(TRUE)),
     out |-> r.out, raised |-> (r.raised # None)]

NoLine == [matched |-> FALSE, where |-> None, out |-> <<>>, raised |-> None]

RECURSIVE LinesRead(_)
LinesRead(l) ==
    IF l = <<>> THEN 0
    ELSE (IF l[1].t = "open" THEN Len(l[1].lines) ELSE 0) + LinesRead(Tail(l))

\* except Exception, e (lines 273-276)
Skipping(lf, e) == "Skipping non-accessible --logfile " \o lf \o " (" \o e \o ")\n"

MainWhere == { <<>>, <<Str("host")>>, <<Str("!=x")>>, <<Str("=x")>>,
               <<Str("pid=1234"), OR, Str("host!=mail2")>> }
MainPid == { <<>>, <<"tcp:80">>, <<"/run/gloss.pid">>, <<"postfix/smtp", "udp:53">> }
MainSelect == { None, Some(<<"host=logentry">>) }

InitRun(a, start, lv) ==
    /\ args = a
    /\ pc = start
    /\ var_names = None
    /\ conditions = <<>>
    /\ use_pid = <<>>
    /\ use_proc = <<>>
    /\ re_logline = ""
    /\ seeline = None
    /\ lfi = 0
    /\ lfl_all = <<>>
    /\ lli = 0
    /\ linevars = lv
    /\ where = None
    /\ ci = 0
    /\ stdout = <<>>
    /\ stderr = <<>>
    /\ warning = FALSE
    /\ status = None
    /\ log = <<>>

Init ==
    \E a \in [verbose : BOOLEAN, where : MainWhere, pid : MainPid, select : MainSelect,
              hostname : {None}, regexp : {None},
              logfile : {DefaultLogFiles}
                          \cup { [k \in 1..n |-> LogFileName(k)] : n \in 1..MaxFiles }] :
        InitRun(a, "select", None)

\* sys.exit (1) after a message on stderr, or an exception nothing catches.
Die(msg) ==
    /\ stderr' = Append(stderr, msg)
    /\ status' = Some(1)
    /\ pc' = "done"

\* lines 151-158
InterpretSelect ==
    /\ pc = "select"
    /\ var_names' = IF args.select = None THEN None
                    ELSE Some(SelectNames(args.select[1]))
    /\ pc' = "where"
    /\ UNCHANGED <<ci, args, conditions, use_pid, use_proc, re_logline, seeline, lfi, lfl_all,
                   lli, linevars, where, stdout, stderr, warning, status, log>>

WhereDone(r) ==
    /\ conditions' = r.conditions
    /\ IF r.err # None THEN Die(r.err[1])
       ELSE pc' = "pid" /\ UNCHANGED <<stderr, status>>

\* lines 160-176
InterpretWhere ==
    /\ pc = "where"
    /\ WhereDone(WhereArgs(args.where, <<>>))
    /\ UNCHANGED <<ci, args, var_names, use_pid, use_proc, re_logline, seeline, lfi, lfl_all,
                   lli, linevars, where, stdout, warning, log>>

PidDone(r) ==
    /\ use_pid' = r.use_pid
    /\ use_proc' = r.use_proc
    /\ IF r.crash THEN Die("IOError: [Errno 2] No such file or directory\n")
       ELSE IF r.err # None THEN Die(r.err[1])
       ELSE pc' = "regexp" /\ UNCHANGED <<stderr, status>>

\* lines 207-218
InterpretPid ==
    /\ pc = "pid"
    /\ \E pf \in [1..Len(args.pid) -> PidFiles] :
        PidDone(PidArgs(args.pid, pf, 1, <<>>, <<>>))
    /\ UNCHANGED <<ci, args, var_names, conditions, re_logline, seeline, lfi, lfl_all,
                   lli, linevars, where, stdout, warning, log>>

Compile(p, re) ==
    /\ re_logline' = p
    /\ stdout' = stdout \o PrintLines("REGEXP " \o p)
    /\ IF re.ok
       THEN /\ seeline' = Some(re)
            /\ var_names' = IF var_names = None THEN Some(ky_logline) ELSE var_names
            /\ pc' = "scan"
            /\ lfi' = 1
            /\ UNCHANGED <<stderr, status>>
       ELSE /\ Die("sre_constants.error\n")
            /\ UNCHANGED <<seeline, var_names, lfi>>

Assembled(p) == Compile(p, ReCompile(p))

\* lines 184-235
Assemble ==
    /\ pc = "regexp"
    /\ Assembled(LogLine(args.hostname, use_proc, use_pid, args.regexp))
    /\ UNCHANGED <<ci, args, conditions, use_pid, use_proc, lfl_all, lli, linevars, where,
                   warning, log>>

\* lines 245-248, and 273-276 where open () raises: the file is unreadable,
\* or lfh.readlines () yields at most n lines, each one of S.
Open(S, n) ==
    /\ pc = "scan"
    /\ lfi <= Len(args.logfile)
    /\ \E content \in {None} \cup { Some(c) : c \in SeqsUpTo(S, n) } :
        IF content = None
        THEN /\ stderr' = Append(stderr, Skipping(args.logfile[lfi],
                                 "[Errno 2] No such file or directory"))
             /\ warning' = TRUE
             /\ lfi' = lfi + 1
             /\ log' = Append(log, Event("open", lfi, FALSE, <<>>, 0, NoLine))
             /\ UNCHANGED <<pc, lfl_all, lli>>
        ELSE /\ lfl_all' = content[1]
             /\ lli' = 1
             /\ pc' = "lines"
             /\ log' = Append(log, Event("open", lfi, TRUE, content[1], 0, NoLine))
             /\ UNCHANGED <<stderr, warning, lfi>>
    /\ UNCHANGED <<ci, args, var_names, conditions, use_pid, use_proc, re_logline, seeline,
                   linevars, where, stdout, status>>

OpenSource == Open(Lines, MaxLines - LinesRead(log))

Scanned(r) ==
    /\ stdout' = stdout \o r.out
    /\ linevars' = IF r.matched THEN r.linevars ELSE linevars
    /\ where' = IF r.matched THEN r.where ELSE where
    /\ log' = Append(log, Event("line", lfi, TRUE, <<>>, lli, r))
    /\ IF r.raised # None
       THEN /\ stderr' = Append(stderr, Skipping(args.logfile[lfi], r.raised[1]))
            /\ warning' = TRUE
            /\ pc' = "scan"
            /\ lfi' = lfi + 1
            /\ UNCHANGED lli
       ELSE /\ lli' = lli + 1
            /\ UNCHANGED <<stderr, warning, pc, lfi>>

\* lines 248-272, and 273-276 where the body raises
ScanLine ==
    /\ pc = "lines"
    /\ lli <= Len(lfl_all)
    /\ Scanned(LineBody(seeline[1], conditions, var_names[1], args.verbose, lfl_all[lli]))
    /\ UNCHANGED <<ci, args, var_names, conditions, use_pid, use_proc, re_logline, seeline,
                   lfl_all, status>>

\* the loop over lfh.readlines () ends: the next lf
EndOfSource ==
    /\ pc = "lines"
    /\ lli > Len(lfl_all)
    /\ pc' = "scan"
    /\ lfi' = lfi + 1
    /\ UNCHANGED <<ci, args, var_names, conditions, use_pid, use_proc, re_logline, seeline,
                   lfl_all, lli, linevars, where, stdout, stderr, warning, status, log>>

\* Mutant of ExitStatus: the warning flag is not consulted.
ExitStatus_Zero(w) == 0

ExitStatus(w) == IF w THEN 1 ELSE 0

\* line 279
Exit ==
    /\ pc = "scan"
    /\ lfi > Len(args.logfile)
    /\ status' = Some(ExitStatus(warning))
    /\ pc' = "done"
    /\ UNCHANGED <<ci, args, var_names, conditions, use_pid, use_proc, re_logline, seeline,
                   lfi, lfl_all, lli, linevars, where, stdout, stderr, warning, log>>

Next ==
    \/ InterpretSelect
    \/ InterpretWhere
    \/ InterpretPid
    \/ Assemble
    \/ OpenSource
    \/ ScanLine
    \/ EndOfSource
    \/ Exit

Spec == Init /\ [][Next]_vars

(***************************************************************************)
(* The where-clause of one bound line, one condition at a time             *)
(* (lines 160-176 and 256-268)                                             *)
(***************************************************************************)
\* At most MaxWhere --where and --or arguments.
MaxWhere == 3

WhereTokens == { OR, Str("host=mail1"), Str("pid=1234"), Str("pid!=1234"), Str("user=root") }

\* linevars of a line under the pattern of a run without options.
BindingOf(lfl) == DictZip(ky_logline, ReMatch(ReCompile(LogLine(None, <<>>, <<>>, None)), lfl)[1])

InitWhere ==
    \E ws \in SeqsUpTo(WhereTokens, MaxWhere), lfl \in {LinePid, LineNoPid} :
        InitRun([verbose |-> FALSE, where |-> ws, pid |-> <<>>, select |-> None,
                 hostname |-> None, regexp |-> None, logfile |-> <<>>],
                "where", Some(BindingOf(lfl)))

WhereParsed(r) ==
    /\ conditions' = r.conditions
    /\ IF r.err # None
       THEN Die(r.err[1]) /\ UNCHANGED <<where, ci>>
       ELSE /\ where' = Some(TRUE)
            /\ ci' = 1
            /\ pc' = "cond"
            /\ UNCHANGED <<stderr, status>>

\* lines 160-176, then line 256
WhereParse ==
    /\ pc = "where"
    /\ WhereParsed(WhereArgs(args.where, <<>>))
    /\ UNCHANGED <<args, var_names, use_pid, use_proc, re_logline, seeline, lfi, lfl_all,
                   lli, linevars, stdout, warning, log>>

WhereStepped(r) ==
    /\ where' = Some(r.where)
    /\ IF r.brk THEN pc' = "if" /\ UNCHANGED ci
       ELSE ci' = ci + 1 /\ UNCHANGED pc

\* lines 257-267: one (var,val,eq) of conditions
WhereStep ==
    /\ pc = "cond"
    /\ ci <= Len(conditions)
    /\ WhereStepped(WhereCond(conditions[ci], linevars[1], where[1]))
    /\ UNCHANGED <<args, var_names, conditions, use_pid, use_proc, re_logline, seeline,
                   lfi, lfl_all, lli, linevars, stdout, stderr, warning, status, log>>

\* the loop over conditions ends
WhereEnd ==
    /\ pc = "cond"
    /\ ci > Len(conditions)
    /\ pc' = "if"
    /\ UNCHANGED <<ci, args, var_names, conditions, use_pid, use_proc, re_logline, seeline,
                   lfi, lfl_all, lli, linevars, where, stdout, stderr, warning, status, log>>

\* line 268: if where
WhereIf ==
    /\ pc = "if"
    /\ pc' = IF where[1] THEN "selected" ELSE "dropped"
    /\ UNCHANGED <<ci, args, var_names, conditions, use_pid, use_proc, re_logline, seeline,
                   lfi, lfl_all, lli, linevars, where, stdout, stderr, warning, status, log>>

NextWhere ==
    \/ WhereParse
    \/ WhereStep
    \/ WhereEnd
    \/ WhereIf

SpecWhere == InitWhere /\ [][NextWhere]_vars

InWhere == pc \in {"cond", "if", "selected", "dropped"}
Decided == pc \in {"selected", "dropped"}

IsOr(c) == c.eq = None

\* The Test holds of the line: its variable is bound and the comparison of
\* the bound value with the Test's value comes out as the Test expects.
TestHolds(c, lv) ==
    /\ c.var[1] \in DOMAIN lv
    /\ (lv[c.var[1]] = c.val) = c.eq[1]

\* C1: at an OrMarker with the accumulator true the evaluation stops at once
\* and the line is selected whatever follows; at an OrMarker with the
\* accumulator false the accumulator becomes true and the evaluation goes on
\* with the next condition.
C1_OrMarker ==
    [][ /\ (pc = "cond" /\ ci <= Len(conditions) /\ IsOr(conditions[ci])) =>
             IF where = Some(TRUE)
             THEN pc' = "if" /\ where' = Some(TRUE)
             ELSE pc' = "cond" /\ ci' = ci + 1 /\ where' = Some(TRUE)
        /\ (pc = "if" /\ where = Some(TRUE)) => pc' = "selected" ]_vars

\* [Test (a), OrMarker, Test (b)] on a line where a's Test holds and b's does
\* not: selected, the loop having stopped at the OrMarker.
C1_Witness ==
    /\ pc = "selected"
    /\ Len(conditions) = 3
    /\ ci = 2
    /\ ~IsOr(conditions[1]) /\ TestHolds(conditions[1], linevars[1])
    /\ IsOr(conditions[2])
    /\ ~IsOr(conditions[3]) /\ ~TestHolds(conditions[3], linevars[1])

\* The token a condition was parsed from.
Unparse(c) == c.var[1] \o (IF c.eq[1] THEN "" ELSE "!") \o "=" \o c.val[1]

\* The token is of the form var!=value.
Negated(t) == Find(t, "=", 1) > 1 /\ Ch(t, Find(t, "=", 1) - 1) = "!"

C2_Parsed ==
    InWhere =>
        /\ Len(conditions) = Len(args.where)
        /\ \A k \in 1..Len(conditions) :
              IF args.where[k].list THEN IsOr(conditions[k])
              ELSE /\ ~IsOr(conditions[k])
                   /\ Unparse(conditions[k]) = args.where[k].v
                   /\ conditions[k].eq[1] = ~Negated(args.where[k].v)

C2_Negation ==
    (Decided /\ Len(conditions) = 1 /\ conditions[1].eq = Some(FALSE)) =>
        (pc = "selected") = (/\ conditions[1].var[1] \in DOMAIN linevars[1]
                             /\ linevars[1][conditions[1].var[1]] # conditions[1].val)

\* C2: a Test makes the accumulator false when its variable is not bound for
\* the line or the comparison differs from what it expects, and leaves it
\* unchanged otherwise: it never turns false into true, and it never ends the
\* evaluation.  var=value parses to a Test expecting equality, var!=value to
\* one expecting inequality, and the clause var!=value alone selects exactly
\* the lines that bind var to another value.
C2_Test ==
    /\ [](C2_Parsed /\ C2_Negation)
    /\ [][ (pc = "cond" /\ ci <= Len(conditions) /\ ~IsOr(conditions[ci])) =>
             /\ pc' = "cond"
             /\ ci' = ci + 1
             /\ where' = Some(where[1] /\ TestHolds(conditions[ci], linevars[1])) ]_vars

\* pid!=1234 alone, on the line whose pid group took no part in the match.
C2_Witness ==
    /\ pc = "selected"
    /\ Len(conditions) = 1
    /\ conditions[1] = [var |-> Some("pid"), val |-> Some("1234"), eq |-> Some(FALSE)]
    /\ linevars[1]["pid"] = None

\* The chains of a clause: b is 0 or the place of an OrMarker, and the chain
\* after b runs up to the next OrMarker or the end of the clause.
ChainStarts(conds) == {0} \cup { k \in 1..Len(conds) : IsOr(conds[k]) }
ChainEnd(conds, b) ==
    LET stops == { k \in (b + 1)..Len(conds) : IsOr(conds[k]) } \cup {Len(conds) + 1}
    IN  CHOOSE k \in stops : \A j \in stops : k <= j

\* The reference: some chain's Tests all hold.
RefSelect(conds, lv) ==
    \E b \in ChainStarts(conds) :
        \A k \in (b + 1)..(ChainEnd(conds, b) - 1) : TestHolds(conds[k], lv)

\* C10: the decision of the loop equals the disjunction, over the chains
\* between the OrMarkers, of the conjunction of the chain's Tests.
C10_Reference ==
    /\ Decided => ((pc = "selected") = RefSelect(conditions, linevars[1]))
    /\ InWhere => (WhereLoop(conditions, 1, linevars[1], TRUE)
                       = RefSelect(conditions, linevars[1]))

\* A first chain that fails and a second that holds.
C10_Witness ==
    /\ pc = "selected"
    /\ Len(conditions) = 3
    /\ ~IsOr(conditions[1]) /\ ~TestHolds(conditions[1], linevars[1])
    /\ IsOr(conditions[2])
    /\ ~IsOr(conditions[3]) /\ TestHolds(conditions[3], linevars[1])

(***************************************************************************)
(* Runs over one log file of at most one line, with the restricted forms   *)
(* of the host, proc, pid and free-text fragments (lines 204-235, 249-272) *)
(***************************************************************************)
\* At most MaxAlts alternatives given with --hostname, --pid and --regexp
\* together.
MaxAlts == 2

HostAlts == { "mail1", "mail2", "mail(1|2)", "?:mail1", "mail[" }
PidAlts == { "1234", "postfix/smtp", "12(34)" }
RegexpAlts == { "XYZ", "(XYZ|up)" }

LineEndToEnd == "Oct 12 03:14:15 mail1 postfix/smtp[1234]: message-id=XYZ\n"
LineHourOnly == "Oct  2 03 mail1 cron[7]: x\n"
PatternLines == { LineEndToEnd, LinePid, LineNoPid, LineHourOnly }

\* None, or a list of 1 to MaxAlts arguments (action='append', default=None).
Appended(S) == {None} \cup { Some(xs) : xs \in SeqsUpTo(S, MaxAlts) \ {<<>>} }

Given(opt) == IF opt = None THEN 0 ELSE Len(opt[1])

InitAssemble ==
    \E h \in Appended(HostAlts), p \in SeqsUpTo(PidAlts, MaxAlts), r \in Appended(RegexpAlts) :
        /\ Given(h) + Len(p) + Given(r) <= MaxAlts
        /\ InitRun([verbose |-> FALSE, where |-> <<>>, pid |-> p, select |-> None,
                    hostname |-> h, regexp |-> r, logfile |-> <<LogFileName(1)>>],
                   "select", None)

OpenOne == Open(PatternLines, 1)

NextAssemble ==
    \/ InterpretSelect
    \/ InterpretWhere
    \/ InterpretPid
    \/ Assemble
    \/ OpenOne
    \/ ScanLine
    \/ EndOfSource
    \/ Exit

SpecAssemble == InitAssemble /\ [][NextAssemble]_vars

\* What a line of PatternLines holds, field by field.
Fields(lfl) ==
    CASE lfl = LinePid ->
            [timestamp |-> Some("Oct 12 23:14:15"), date |-> Some("Oct 12"),
             month |-> Some("Oct"), day |-> Some("12"), time |-> Some("23:14:15"),
             host |-> Some("mail1"), proc |-> Some("postfix/smtp"), pid |-> Some("1234"),
             logentry |-> Some("message-id=XYZ")]
      [] lfl = LineNoPid ->
            [timestamp |-> Some("Oct 12 23:14:16"), date |-> Some("Oct 12"),
             month |-> Some("Oct"), day |-> Some("12"), time |-> Some("23:14:16"),
             host |-> Some("mail2"), proc |-> Some("kernel"), pid |-> None,
             logentry |-> Some("up")]
      [] lfl = LineHourOnly ->
            [timestamp |-> Some("Oct  2 03"), date |-> Some("Oct  2"),
             month |-> Some("Oct"), day |-> Some("2"), time |-> Some("03"),
             host |-> Some("mail1"), proc |-> Some("cron"), pid |-> Some("7"),
             logentry |-> Some("x")]
      [] lfl = LineEndToEnd ->
            [timestamp |-> Some("Oct 12 03:14:15"), date |-> Some("Oct 12"),
             month |-> Some("Oct"), day |-> Some("12"), time |-> Some("03:14:15"),
             host |-> Some("mail1"), proc |-> Some("postfix/smtp"), pid |-> Some("1234"),
             logentry |-> Some("message-id=XYZ")]

\* The one line of the run has been scanned.
ScannedOne == Len(log) = 2 /\ log[2].t = "line"

\* C8: for every configuration, with any alternatives given by the user, the
\* pattern has as many capture groups as ky_logline has keys, group i is the
\* one key i names, and a line that matches is bound, for every key, to the
\* field of the line the key names (or to None).
C8_Alignment ==
    /\ seeline # None => seeline[1].groups = Len(ky_logline)
    /\ (ScannedOne /\ log[2].matched) =>
          /\ DOMAIN linevars[1] = { ky_logline[k] : k \in 1..Len(ky_logline) }
          /\ \A key \in DOMAIN linevars[1] : linevars[1][key] = Fields(lfl_all[1])[key]

\* The alternative is plain text as far as groups go: it opens and closes no
\* group or character class itself, and does not turn the "(" before it into
\* a "(?" extension.
Plain(alt) ==
    /\ \A k \in 1..Len(alt) : Ch(alt, k) \notin {"(", ")", "[", "]", "\\"}
    /\ Len(alt) = 0 \/ Ch(alt, 1) # "?"

AllPlain(xs) == \A k \in 1..Len(xs) : Plain(xs[k])

PlainArgs ==
    /\ args.hostname = None \/ AllPlain(args.hostname[1])
    /\ AllPlain(args.pid)
    /\ args.regexp = None \/ AllPlain(args.regexp[1])

\* Where the alignment of C8 does hold: the configurations whose alternatives
\* are all plain.
AlignedWhenPlain == PlainArgs => C8_Alignment

\* C9: under the default fragments, with no where-clause and no --select,
\* the line of the end-to-end example matches and its output is the seven
\* name=value lines from month to logentry and one blank line.
C9_EndToEnd ==
    (/\ args.hostname = None /\ args.pid = <<>> /\ args.regexp = None
     /\ ScannedOne
     /\ lfl_all = <<LineEndToEnd>>) =>
        /\ log[2].matched
        /\ log[2].out = << "month=Oct", "day=12", "time=03:14:15", "host=mail1",
                           "proc=postfix/smtp", "pid=1234", "logentry=message-id=XYZ", "" >>

(***************************************************************************)
(* Properties of whole runs (Spec)                                         *)
(***************************************************************************)
IsPrefix(a, b) == Len(a) <= Len(b) /\ SubSeq(b, 1, Len(a)) = a

StartsWith(s, t) == Len(t) <= Len(s) /\ SubSeq(s, 1, Len(t)) = t

LineEvents == { k \in 1..Len(log) : log[k].t = "line" }
OpenEvents == { k \in 1..Len(log) : log[k].t = "open" }

\* The line idx of source file has been through the body of the loop.
Visited(file, idx) == \E k \in LineEvents : log[k].file = file /\ log[k].idx = idx

\* One name=value line per requested variable, in order, then a blank line.
WholeBlock(out, names) ==
    /\ Len(out) = Len(names) + 1
    /\ \A j \in 1..Len(names) : StartsWith(out[j], names[j] \o "=")
    /\ out[Len(out)] = ""

\* C3: every line that matches and is selected by the where-clause is
\* printed as one name=value line per requested variable, in the requested
\* order, and one blank line, also when the pid group did not take part in
\* the match; no selected line leaves a partial block or stops the scan of
\* the lines after it.
C3_Projection ==
    \A k \in LineEvents :
        log[k].selected =>
            /\ WholeBlock(log[k].out, var_names[1])
            /\ ~log[k].raised

\* C4: verbose or not, a line that does not match the pattern is skipped
\* and does not end the scan of its source: the line after it, when there is
\* one, is scanned as well.
C4_MismatchSkipped ==
    \A k \in LineEvents :
        ~log[k].matched =>
            /\ ~log[k].raised
            /\ log[k].out = <<>>
            /\ pc = "done" =>
                  \A o \in OpenEvents :
                      (log[o].file = log[k].file /\ log[k].idx < Len(log[o].lines))
                          => Visited(log[k].file, log[k].idx + 1)

FailedOpen == \E o \in OpenEvents : ~log[o].ok

\* Every configured source has been opened, and every line of a source that
\* could be read has been scanned and, when selected, printed whole.
AllScanned ==
    /\ \A f \in 1..Len(args.logfile) : \E o \in OpenEvents : log[o].file = f
    /\ \A o \in OpenEvents : \A i \in 1..Len(log[o].lines) :
          \E k \in LineEvents :
              /\ log[k].file = log[o].file
              /\ log[k].idx = i
              /\ log[k].selected => WholeBlock(log[k].out, var_names[1])

\* C5: when a source cannot be opened it is skipped with a warning, every
\* other source is still scanned in order and its selected lines are
\* printed, nothing printed before is retracted, and the run ends with
\* status 1.
C5_SourceSkipped ==
    /\ [](FailedOpen => /\ warning
                        /\ pc = "done" => (status = Some(1) /\ AllScanned))
    /\ [][IsPrefix(stdout, stdout')]_vars

\* The part of C5 that is the handler's own: after a failed open the warning
\* is set, the message is on stderr, the loop goes on to the next source and
\* the run ends with status 1.
OpenFailureHandled ==
    FailedOpen =>
        /\ warning
        /\ \A o \in OpenEvents :
              ~log[o].ok => \E m \in 1..Len(stderr) :
                  stderr[m] = Skipping(args.logfile[log[o].file],
                                       "[Errno 2] No such file or directory")
        /\ pc = "done" =>
              /\ status = Some(1)
              /\ \A f \in 1..Len(args.logfile) : \E o \in OpenEvents : log[o].file = f

\* A source was given up: it could not be opened, or printing a selected
\* line of it raised.
SourceSkipped ==
    \/ FailedOpen
    \/ \E k \in LineEvents : log[k].matched /\ log[k].raised

\* A line that did not match was reported in verbose mode.
MismatchReported == \E k \in LineEvents : ~log[k].matched /\ log[k].raised

\* The run got as far as the scan and has ended.
ScanEnded == pc = "done" /\ seeline # None

C6_Status ==
    /\ log = <<>> => ~warning
    /\ warning <=> (SourceSkipped \/ MismatchReported)
    /\ ScanEnded =>
          /\ status \in {Some(0), Some(1)}
          /\ status = Some(0) <=> ~(SourceSkipped \/ MismatchReported)
          /\ (/\ ~args.verbose
              /\ ~FailedOpen
              /\ \A k \in LineEvents : log[k].selected => ~log[k].raised)
                 => status = Some(0)

\* C6: the warning flag starts false and is never cleared once set; a run
\* that reached the scan ends with status 0 exactly when no source was
\* skipped and no mismatch was reported in verbose mode, and with status 1
\* otherwise; a non-verbose run whose sources were all read and whose
\* selected lines were all printed ends with status 0 even when lines did
\* not match.
C6_Completion == []C6_Status /\ [][warning => warning']_vars

\* A non-verbose run that skipped a line that did not match, printed a
\* selected line and ended with status 0.
C6_Witness ==
    /\ ScanEnded
    /\ status = Some(0)
    /\ ~args.verbose
    /\ \E k \in LineEvents : ~log[k].matched
    /\ \E k \in LineEvents : log[k].selected /\ log[k].out # <<>>

\* A where token that is not the OR marker and has no "=", or no name
\* before "=" or "!=".
BadWhere(w) ==
    /\ w # OR
    /\ \/ \A k \in 1..Len(w.v) : Ch(w.v, k) # "="
       \/ StartsWith(w.v, "=")
       \/ StartsWith(w.v, "!=")

\* A --pid value that names a network endpoint: tcp:, udp: or sctp: and a
\* port number.
Endpoint(pid) ==
    \E proto \in {"tcp:", "udp:", "sctp:"} :
        /\ StartsWith(pid, proto)
        /\ Len(pid) > Len(proto)
        /\ Ch(pid, Len(proto) + 1) \in CharRange("0", "9")

ConfigError ==
    \/ \E k \in 1..Len(args.where) : BadWhere(args.where[k])
    \/ \E k \in 1..Len(args.pid) : Endpoint(args.pid[k])

====
